---- MODULE Spec2Model ----
(***************************************************************************)
(* A model of the OTP library (ColinGreybosh/otp): the TOTP class of       *)
(* lib/totp.ts and the helpers of utils/validation.ts and utils/crypto.ts. *)
(*                                                                         *)
(* Strings are sequences of one-character strings.  A JavaScript number is *)
(* a record [h, l, f]: its value is h * 65536 + l + f / 10, with l in      *)
(* 0..65535 and f in 0..9, so that counters at and above 2^31 can be       *)
(* written although TLC's own integers stop at 2^31 - 1.                   *)
(*                                                                         *)
(* An outcome is what a call does: it returns a value or raises an error.  *)
(***************************************************************************)
EXTENDS Integers, Sequences, FiniteSets, TLC

VARIABLES instance, hmacTable, issued, call, callerConfig

vars == <<instance, hmacTable, issued, call, callerConfig>>

---------------------------------------------------------------------------
(* Bounds of the model *)

\* secrets carry 0..MaxPad trailing '=' characters
MaxPad == 1
\* timestamps are the whole seconds up to MaxTick
MaxTick == 4
\* validate is called with windows up to MaxWindow
MaxWindow == 1
\* the HMAC stand-in tells Slots (key, message) pairs apart
Slots == 3
\* the strings handed to the helper functions have up to MaxText characters
MaxText == 3

---------------------------------------------------------------------------
(* JavaScript numbers *)

Limb == 256 * 256

Num(i) == [h |-> i \div Limb, l |-> i % Limb, f |-> 0]

\* a number with a fractional part of f tenths
Frac(i, f) == [h |-> i \div Limb, l |-> i % Limb, f |-> f]

\* the integer part (floor) of a number small enough for TLC
Floor(n) == n.h * Limb + n.l

Number_isInteger(n) == n.f = 0

\* n < k, n > k, n <= k for an integer k
NumLt(n, k) == n.h < 0 \/ (n.h < 32767 /\ Floor(n) < k)
NumGt(n, k) == n.h >= 0 /\ (n.h >= 32767 \/ Floor(n) > k \/ (Floor(n) = k /\ n.f > 0))
NumLe(n, k) == ~NumGt(n, k)

\* n + i for a small integer i
NumAdd(n, i) ==
    LET s == n.l + i
    IN  [h |-> n.h + (s \div Limb), l |-> s % Limb, f |-> n.f]

\* n * m for a small integer m >= 0
NumMul(n, m) ==
    LET p == n.l * m
    IN  [h |-> n.h * m + (p \div Limb), l |-> p % Limb, f |-> 0]

\* Math.floor(n / d) for an integer 0 < d < 32768
FloorDiv(n, d) ==
    LET low == (n.h % d) * Limb + n.l
    IN  [h |-> n.h \div d, l |-> low \div d, f |-> 0]

---------------------------------------------------------------------------
(* Outcomes *)

Return(v) == [kind |-> "return", value |-> v]
Raise(class, code) == [kind |-> "raise", class |-> class, code |-> code]
OTPException(code) == Raise("OTPException", code)
Void == Return("void")
Raised(o) == o.kind = "raise"

---------------------------------------------------------------------------
(* Characters and strings *)

Upper == <<"A","B","C","D","E","F","G","H","I","J","K","L","M",
           "N","O","P","Q","R","S","T","U","V","W","X","Y","Z">>
Lower == <<"a","b","c","d","e","f","g","h","i","j","k","l","m",
           "n","o","p","q","r","s","t","u","v","w","x","y","z">>
Digits == <<"0","1","2","3","4","5","6","7","8","9">>

Range(s) == {s[i] : i \in DOMAIN s}

UpperSet == Range(Upper)
LowerSet == Range(Lower)
DigitSet == Range(Digits)
Base32Set == UpperSet \cup {"2", "3", "4", "5", "6", "7"}

\* the letter c in upper case
UpperOf == [c \in LowerSet |-> Upper[CHOOSE i \in DOMAIN Lower : Lower[i] = c]]

IsWhitespace(c) == c \in {" ", "\t", "\n"}

toUpperCaseChar(c) == IF c \in LowerSet THEN UpperOf[c] ELSE c

\* the cleaning without toUpperCase
Clean_KeepsCase(s) == SelectSeq(s, LAMBDA c : ~IsWhitespace(c))

\* s.replace(/\s/g, '').toUpperCase()
Clean(s) ==
    LET kept == SelectSeq(s, LAMBDA c : ~IsWhitespace(c))
    IN  [i \in DOMAIN kept |-> toUpperCaseChar(kept[i])]

IsBase32Char(c) == c \in Base32Set

\* the test with '=' allowed at any place after the first character
MatchesBase32_PaddingAnywhere(s) ==
    /\ s # <<>>
    /\ IsBase32Char(s[1])
    /\ \A i \in DOMAIN s : IsBase32Char(s[i]) \/ s[i] = "="

\* /^[A-Z2-7]+=*$/.test(s): one or more base32 characters, then only '='
MatchesBase32(s) ==
    LET body == {i \in DOMAIN s : s[i] # "="}
    IN  /\ body # {}
        /\ \A i \in body : IsBase32Char(s[i]) /\ \A j \in 1..(i-1) : j \in body

Rep(c, n) == [i \in 1..n |-> c]

IndexIn(seq, c) == CHOOSE i \in DOMAIN seq : seq[i] = c

\* String.prototype.charCodeAt for the characters of the model
CharCode ==
    [c \in DigitSet \cup UpperSet \cup LowerSet \cup {" ", "\t", "\n", "=", "!", "-"} |->
        CASE c \in DigitSet -> 47 + IndexIn(Digits, c)
          [] c \in UpperSet -> 64 + IndexIn(Upper, c)
          [] c \in LowerSet -> 96 + IndexIn(Lower, c)
          [] c = " " -> 32
          [] c = "\t" -> 9
          [] c = "\n" -> 10
          [] c = "=" -> 61
          [] c = "!" -> 33
          [] c = "-" -> 45]

\* a ^ b and a | b on non-negative integers, bit by bit
RECURSIVE BitXor(_, _)
BitXor(a, b) ==
    IF a = 0 /\ b = 0 THEN 0
    ELSE ((a + b) % 2) + 2 * BitXor(a \div 2, b \div 2)

RECURSIVE BitOr(_, _)
BitOr(a, b) ==
    IF a = 0 /\ b = 0 THEN 0
    ELSE (IF a % 2 = 1 \/ b % 2 = 1 THEN 1 ELSE 0) + 2 * BitOr(a \div 2, b \div 2)

\* Number.prototype.toString of a non-negative integer: its decimal digits
RECURSIVE NumberToString(_)
NumberToString(n) ==
    IF n < 10 THEN <<Digits[n + 1]>>
    ELSE NumberToString(n \div 10) \o <<Digits[(n % 10) + 1]>>

\* padStart that pads nothing
PadStart_NoPad(str, targetLength, c) == str

\* String.prototype.padStart(targetLength, c)
PadStart(str, targetLength, c) ==
    IF Len(str) >= targetLength THEN str
    ELSE Rep(c, targetLength - Len(str)) \o str

---------------------------------------------------------------------------
(* utils/crypto.ts and the base32 decoder it calls *)

\* hi-base32's decode.asBytes, as far as the number of bytes it returns:
\* '=' is dropped, every 8 characters give 5 bytes, and a rest of 2, 4, 5
\* or 7 characters gives 1, 2, 3 or 4 bytes more (another rest gives none)
DecodedLength(clean) ==
    LET length == Len(SelectSeq(clean, LAMBDA c : c # "="))
        remain == length % 8
    IN  (length \div 8) * 5
          + CASE remain = 2 -> 1
              [] remain = 4 -> 2
              [] remain = 5 -> 3
              [] remain = 7 -> 4
              [] OTHER -> 0

\* the base32 alphabet of RFC 4648 and the 5-bit value of each character
Base32Alphabet == Upper \o <<"2", "3", "4", "5", "6", "7">>
Base32Value == [c \in Base32Set |-> IndexIn(Base32Alphabet, c) - 1]

\* hi-base32's decode.asBytes: the characters are a stream of 5-bit values,
\* most significant bit first, and byte k is the k-th group of 8 bits of it
decodeAsBytes(clean) ==
    LET str == SelectSeq(clean, LAMBDA c : c # "=")
        v(i) == IF i <= Len(str) THEN Base32Value[str[i]] ELSE 0
        byte(k) ==
            LET bit == 8 * (k - 1)
                i == (bit \div 5) + 1
                word == v(i) * 1024 + v(i + 1) * 32 + v(i + 2)
            IN  (word \div (2 ^ (7 - (bit % 5)))) % 256
    IN  [k \in 1..DecodedLength(clean) |-> byte(k)]

\* an outcome together with the number of calls of the base32 decoder
Decoded(outcome, n) == [outcome |-> outcome, decodes |-> n]

\* decodeSecretForHMAC
decodeSecretForHMAC(base32Secret) ==
    IF base32Secret = <<>>
    THEN Decoded(OTPException("INVALID_SECRET"), 0)
    ELSE LET cleanSecret == Clean(base32Secret)
         IN  IF ~MatchesBase32(cleanSecret)
             THEN Decoded(OTPException("INVALID_SECRET"), 0)
             ELSE Decoded(Return(decodeAsBytes(cleanSecret)), 1)

\* the encoding of the full groups of 5 bytes only
encode_FullGroupsOnly(bytes) ==
    LET count == (Len(bytes) \div 5) * 8
        char(j) ==
            LET bit == 5 * (j - 1)
                i == (bit \div 8) + 1
                word == bytes[i] * 256 + (IF i < Len(bytes) THEN bytes[i + 1] ELSE 0)
            IN  Base32Alphabet[((word \div (2 ^ (11 - (bit % 8)))) % 32) + 1]
    IN  [j \in 1..count |-> char(j)]

\* hi-base32's encode of a byte array: the bytes are a stream of bits, most
\* significant first, character j writes the j-th group of 5 bits, and '='
\* fills the text up to a multiple of 8 characters
encode(bytes) ==
    LET b(i) == IF i <= Len(bytes) THEN bytes[i] ELSE 0
        count == (8 * Len(bytes) + 4) \div 5
        char(j) ==
            LET bit == 5 * (j - 1)
                i == (bit \div 8) + 1
                word == b(i) * 256 + b(i + 1)
            IN  Base32Alphabet[((word \div (2 ^ (11 - (bit % 8)))) % 32) + 1]
    IN  [j \in 1..(((count + 7) \div 8) * 8) |-> IF j <= count THEN char(j) ELSE "="]

\* an outcome together with the number of calls of the random byte source
Drawn(outcome, n) == [outcome |-> outcome, randoms |-> n]

\* generateSecret accepting every positive integer length
generateSecret_AnyPositive(length, random) ==
    IF ~Number_isInteger(length) \/ NumLe(length, 0)
    THEN Drawn(OTPException("INVALID_SECRET"), 0)
    ELSE IF Raised(random)
    THEN Drawn(OTPException("INVALID_SECRET"), 1)
    ELSE Drawn(Return(encode(random.value)), 1)

\* generateSecret(length); random is what randomBytes(length) does when it
\* is called: it returns length bytes or it throws
generateSecret(length, random) ==
    IF ~Number_isInteger(length) \/ NumLe(length, 0)
    THEN Drawn(OTPException("INVALID_SECRET"), 0)
    ELSE IF Floor(length) \notin {20, 32, 64}
    THEN Drawn(OTPException("INVALID_SECRET"), 0)
    ELSE IF Raised(random)
    THEN Drawn(OTPException("INVALID_SECRET"), 1)
    ELSE Drawn(Return(encode(random.value)), 1)

---------------------------------------------------------------------------
(* utils/validation.ts *)

\* an argument the caller left out
Undefined == "undefined"

Algorithms == {"SHA1", "SHA256", "SHA512"}

getSecretLength(algorithm) ==
    CASE algorithm = "SHA1" -> Return(20)
      [] algorithm = "SHA256" -> Return(32)
      [] algorithm = "SHA512" -> Return(64)
      [] OTHER -> Raise("UnexpectedCaseError", "none")

validateSecret(secret, algorithm) ==
    IF secret = <<>>
    THEN OTPException("INVALID_SECRET")
    ELSE LET decodedSecret == decodeSecretForHMAC(secret).outcome
             expectedLength == getSecretLength(algorithm)
         IN  IF Raised(decodedSecret) THEN decodedSecret
             ELSE IF Raised(expectedLength) THEN expectedLength
             ELSE IF Len(decodedSecret.value) # expectedLength.value
                  THEN OTPException("INVALID_SECRET")
                  ELSE Void

validateAlgorithm(algorithm) ==
    IF algorithm \notin Algorithms
    THEN OTPException("INVALID_ALGORITHM")
    ELSE Void

\* validateDigits without the integer test
validateDigits_NoIntegerTest(digits) ==
    IF NumLt(digits, 6) \/ NumGt(digits, 8)
    THEN OTPException("INVALID_DIGITS")
    ELSE Void

validateDigits(digits) ==
    IF ~Number_isInteger(digits) \/ NumLt(digits, 6) \/ NumGt(digits, 8)
    THEN OTPException("INVALID_DIGITS")
    ELSE Void

\* validatePeriod with period < 0 for period <= 0
validatePeriod_AllowsZero(period) ==
    IF ~Number_isInteger(period) \/ NumLt(period, 0)
    THEN OTPException("INVALID_PERIOD")
    ELSE Void

validatePeriod(period) ==
    IF ~Number_isInteger(period) \/ NumLe(period, 0)
    THEN OTPException("INVALID_PERIOD")
    ELSE Void

\* validateCounter without the sign test
validateCounter_AllowsNegative(counter) ==
    IF ~Number_isInteger(counter)
    THEN OTPException("INVALID_COUNTER")
    ELSE Void

validateCounter(counter) ==
    IF ~Number_isInteger(counter) \/ NumLt(counter, 0)
    THEN OTPException("INVALID_COUNTER")
    ELSE Void

\* validateToken without the length test
validateToken_NoLengthTest(token, expectedLength) ==
    IF token = <<>>
    THEN OTPException("INVALID_TOKEN")
    ELSE IF \E i \in DOMAIN token : token[i] \notin DigitSet
    THEN OTPException("INVALID_TOKEN")
    ELSE Void

validateToken(token, expectedLength) ==
    IF token = <<>>
    THEN OTPException("INVALID_TOKEN")
    ELSE IF \E i \in DOMAIN token : token[i] \notin DigitSet
    THEN OTPException("INVALID_TOKEN")
    ELSE IF Num(Len(token)) # expectedLength
    THEN OTPException("INVALID_TOKEN")
    ELSE Void

---------------------------------------------------------------------------
(* lib/totp.ts: construction *)

\* TOTP.validateConfig: validateSecret is called with the secret alone, so
\* its algorithm parameter is undefined
validateConfig(config) ==
    LET secretCheck == validateSecret(config.secret, Undefined)
        algorithmCheck == validateAlgorithm(config.algorithm)
        digitsCheck == validateDigits(config.digits)
    IN  IF Raised(secretCheck) THEN secretCheck
        ELSE IF Raised(algorithmCheck) THEN algorithmCheck
        ELSE IF Raised(digitsCheck) THEN digitsCheck
        ELSE validatePeriod(config.period)

\* what the caller holds before any call
NoCall == [op |-> "none"]

\* new TOTP(config): validateConfig, then the copy of the record; the
\* caller keeps the object it passed
NewTOTP(config) ==
    LET outcome == validateConfig(config)
    IN  /\ instance = <<>>
        /\ call = NoCall
        /\ call' = [op |-> "new", config |-> config, outcome |-> outcome]
        /\ instance' = IF Raised(outcome) THEN <<>> ELSE <<config>>
        /\ callerConfig' = <<config>>
        /\ UNCHANGED <<hmacTable, issued>>

---------------------------------------------------------------------------
(* The configurations handed to the constructor *)

SecretChars == {"A", "a", "7", "1", "!"}
SecretLens == {0, 5, 16, 32, 33, 52, 103}
Margins == {<<>>, <<" ">>}

\* a secret text: c repeated n times, padded, inside whitespace margins, or
\* with the character x in the middle when mid is set
SecretText(pre, c, n, pad, post, mid) ==
    pre \o Rep(c, n \div 2) \o mid \o Rep(c, n - (n \div 2)) \o Rep("=", pad) \o post

AlgorithmArgs == Algorithms \cup {"MD5"}
DigitsArgs == {Num(5), Num(6), Num(8), Num(9), Frac(6, 5)}
PeriodArgs == {Num(30), Num(0), Num(-1), Frac(1, 5)}

\* the HMAC stand-in before any instance exists
NoTable == <<>>

InitNew ==
    /\ instance = <<>>
    /\ hmacTable = NoTable
    /\ issued = <<>>
    /\ call = NoCall
    /\ callerConfig = <<>>

\* one construction per run, with any of the configurations
NextNew ==
    /\ call = NoCall
    /\ \E pre \in Margins, post \in Margins, c \in SecretChars, n \in SecretLens,
       pad \in 0..MaxPad, mid \in {<<>>, <<"=">>, <<"\n">>},
       algorithm \in AlgorithmArgs, digits \in DigitsArgs, period \in PeriodArgs :
          /\ mid # <<>> => (pre = <<>> /\ post = <<>> /\ c = "A" /\ n = 32)
          /\ NewTOTP([secret |-> SecretText(pre, c, n, pad, post, mid),
                      algorithm |-> algorithm, digits |-> digits, period |-> period])

SpecNew == InitNew /\ [][NextNew]_vars

---------------------------------------------------------------------------
(* lib/totp.ts: token derivation *)

\* the four bytes of a 32-bit word given as two 16-bit halves, big-endian
WordBytes(hi16, lo16) == <<hi16 \div 256, hi16 % 256, lo16 \div 256, lo16 % 256>>

\* TOTP.createTimeBuffer (the high word stays below 2^16 for the numbers
\* written here).  Buffer.writeUInt32BE raises a RangeError for a
\* value outside 0..2^32-1; timeStep & 0xffffffff is the signed 32-bit value
\* of the low word, negative when bit 31 of timeStep is set
createTimeBuffer(timeStep) ==
    LET high == timeStep.h \div Limb
        lowHalf == timeStep.h % Limb
        lowIsNegative == lowHalf >= Limb \div 2
    IN  IF high < 0
        THEN Raise("RangeError", "ERR_OUT_OF_RANGE")
        ELSE IF lowIsNegative
        THEN Raise("RangeError", "ERR_OUT_OF_RANGE")
        ELSE Return(WordBytes(0, high) \o WordBytes(lowHalf, timeStep.l))

\* The HMAC primitive stands outside the library: a digest is a function of
\* the hash function, the key and the message.  hmacTable picks one such
\* function: it gives every (key, message) slot one of the digests below.
SlotOf(key, message) ==
    (Len(key) + key[1] + key[Len(key)] + message[8] + message[4]) % Slots

DigestLength(algorithm) ==
    CASE algorithm = "SHA1" -> 20
      [] algorithm = "SHA256" -> 32
      [] algorithm = "SHA512" -> 64

\* the digests the stand-in draws from: the truncation offset, the four
\* bytes read there, and the byte everywhere else
DigestSeeds ==
    << [offset |-> 15, bytes |-> <<255, 255, 255, 255>>, fill |-> 0,   top |-> 15],
       [offset |-> 10, bytes |-> <<128, 0, 4, 210>>,     fill |-> 85,  top |-> 5] >>

DigestOf(algorithm, seed) ==
    LET d == DigestSeeds[seed]
        length == DigestLength(algorithm)
    IN  [i \in 1..length |->
            IF i = length THEN d.top * 16 + d.offset
            ELSE IF i - 1 \in d.offset..(d.offset + 3) THEN d.bytes[i - d.offset]
            ELSE d.fill]

\* the bytes createHmac keys the HMAC with when it is handed a string: the
\* UTF-8 encoding of the text, one byte per character of the model
Utf8Bytes(text) == [i \in DOMAIN text |-> CharCode[text[i]]]

\* the key argument of createHmac: config.secret, the secret text itself
hmacKey(config) == Utf8Bytes(config.secret)

\* TOTP.generateHMAC
generateHMAC(config, timeBuffer) ==
    DigestOf(config.algorithm, hmacTable[SlotOf(hmacKey(config), timeBuffer) + 1])

\* the truncation clearing the two top bits of the first byte
performDynamicTruncation_ClearsTwoBits(hash) ==
    IF Len(hash) = 0
    THEN Raise("Error", "Hash generation failed")
    ELSE LET offset == hash[Len(hash)] % 16
         IN  IF Len(hash) < offset + 4
             THEN Raise("Error", "Invalid hash offset for truncation")
             ELSE Return( (hash[offset + 1] % 64) * 16777216
                          + (hash[offset + 2] % 256) * 65536
                          + (hash[offset + 3] % 256) * 256
                          + (hash[offset + 4] % 256) )

\* the truncation giving 0 for a digest that is too short
performDynamicTruncation_ZeroFills(hash) ==
    IF Len(hash) = 0 \/ Len(hash) < (hash[Len(hash)] % 16) + 4
    THEN Return(0)
    ELSE LET offset == hash[Len(hash)] % 16
         IN  Return( (hash[offset + 1] % 128) * 16777216
                     + (hash[offset + 2] % 256) * 65536
                     + (hash[offset + 3] % 256) * 256
                     + (hash[offset + 4] % 256) )

\* the truncation with an offset of the low 5 bits of the last byte
performDynamicTruncation_FiveBitOffset(hash) ==
    IF Len(hash) = 0
    THEN Raise("Error", "Hash generation failed")
    ELSE LET offset == hash[Len(hash)] % 32
         IN  IF Len(hash) < offset + 4
             THEN Raise("Error", "Invalid hash offset for truncation")
             ELSE Return( (hash[offset + 1] % 128) * 16777216
                          + (hash[offset + 2] % 256) * 65536
                          + (hash[offset + 3] % 256) * 256
                          + (hash[offset + 4] % 256) )

\* the indices of hash the code of performDynamicTruncation reads, as the
\* code counts them (from 0): hash.length - 1 first, and offset..offset + 3
\* when neither guard has thrown
TruncationReads(hash) ==
    IF Len(hash) = 0
    THEN {Len(hash) - 1}
    ELSE LET offset == hash[Len(hash)] % 16
         IN  IF Len(hash) < offset + 4
             THEN {Len(hash) - 1}
             ELSE {Len(hash) - 1} \cup (offset..(offset + 3))

\* TOTP.performDynamicTruncation; hash[i] of the code is hash[i + 1] here
performDynamicTruncation(hash) ==
    IF Len(hash) = 0
    THEN Raise("Error", "Hash generation failed")
    ELSE LET lastByte == hash[Len(hash)]
             offset == lastByte % 16
         IN  IF Len(hash) < offset + 4
             THEN Raise("Error", "Invalid hash offset for truncation")
             ELSE Return( (hash[offset + 1] % 128) * 16777216
                          + (hash[offset + 2] % 256) * 65536
                          + (hash[offset + 3] % 256) * 256
                          + (hash[offset + 4] % 256) )

\* an outcome together with the number of HMAC computations made for it
Counted(outcome, n) == [outcome |-> outcome, hmacs |-> n]

\* TOTP.generateToken
generateToken(config, timeStep) ==
    LET counterCheck == validateCounter(timeStep)
        timeBuffer == createTimeBuffer(timeStep)
        hash == generateHMAC(config, timeBuffer.value)
        truncatedHash == performDynamicTruncation(hash)
        digits == Floor(config.digits)
        token == truncatedHash.value % (10 ^ digits)
    IN  IF Raised(counterCheck) THEN Counted(counterCheck, 0)
        ELSE IF Raised(timeBuffer) THEN Counted(timeBuffer, 0)
        ELSE IF Raised(truncatedHash) THEN Counted(truncatedHash, 1)
        ELSE Counted(Return(PadStart(NumberToString(token), digits, "0")), 1)

\* the loop leaving at the first difference
RECURSIVE Accumulate_EarlyExit(_, _, _, _, _)
Accumulate_EarlyExit(a, b, i, result, iterations) ==
    IF i > Len(a) \/ result # 0 THEN [result |-> result, iterations |-> iterations]
    ELSE Accumulate_EarlyExit(a, b, i + 1,
                              BitOr(result, BitXor(CharCode[a[i]], CharCode[b[i]])),
                              iterations + 1)

\* the loop of TOTP.constantTimeEquals from index i on: the accumulated
\* difference and the number of iterations made
RECURSIVE Accumulate(_, _, _, _, _)
Accumulate(a, b, i, result, iterations) ==
    IF i > Len(a) THEN [result |-> result, iterations |-> iterations]
    ELSE Accumulate(a, b, i + 1,
                    BitOr(result, BitXor(CharCode[a[i]], CharCode[b[i]])),
                    iterations + 1)

\* the iterations of the loop in constantTimeEquals(a, b)
LoopIterations(a, b) ==
    IF Len(a) # Len(b) THEN 0
    ELSE Accumulate(a, b, 1, 0, 0).iterations

\* the comparator with the loop starting at the second character
constantTimeEquals_FromSecond(a, b) ==
    IF Len(a) # Len(b) THEN FALSE
    ELSE Accumulate(a, b, 2, 0, 0).result = 0

constantTimeEquals(a, b) ==
    IF Len(a) # Len(b) THEN FALSE
    ELSE Accumulate(a, b, 1, 0, 0).result = 0

\* Math.floor(currentTime / 1000 / period)
TimeStepOf(config, currentTime) ==
    FloorDiv(FloorDiv(currentTime, 1000), Floor(config.period))

\* TOTP.getCurrentTimeStep
getCurrentTimeStep(config, currentTime) == Return(TimeStepOf(config, currentTime))

\* timestamp ?? Date.now(): an optional argument is <<>> or <<value>>
OrElse(arg, default) == IF arg = <<>> THEN default ELSE arg[1]

\* TOTP.generate.  For a time of t >= 0 ms the remaining time
\* ceil(period - ((t / 1000) % period)) is period - (floor(t / 1000) mod period)
generate(config, currentTime) ==
    LET timeStep == TimeStepOf(config, currentTime)
        token == generateToken(config, timeStep)
        period == Floor(config.period)
        seconds == FloorDiv(currentTime, 1000)
        elapsed == ((seconds.h % period) * Limb + seconds.l) % period
    IN  IF Raised(token.outcome) THEN token
        ELSE Counted(Return([token |-> token.outcome.value,
                             remainingTime |-> period - elapsed]), token.hmacs)

\* the loop with i < window for i <= window: the last offset is never tried
RECURSIVE validateFrom_Exclusive(_, _, _, _, _, _, _)
validateFrom_Exclusive(config, token, currentTimeStep, window, i, hmacs, compares) ==
    IF i >= window
    THEN [outcome |-> Return([isValid |-> FALSE]), hmacs |-> hmacs, compares |-> compares]
    ELSE LET timeStep == NumAdd(currentTimeStep, i)
             expectedToken == generateToken(config, timeStep)
         IN  IF Raised(expectedToken.outcome)
             THEN [outcome |-> expectedToken.outcome,
                   hmacs |-> hmacs + expectedToken.hmacs, compares |-> compares]
             ELSE IF constantTimeEquals(token, expectedToken.outcome.value)
             THEN [outcome |-> Return([isValid |-> TRUE, delta |-> i]),
                   hmacs |-> hmacs + 1, compares |-> compares + 1]
             ELSE validateFrom_Exclusive(config, token, currentTimeStep, window, i + 1,
                                         hmacs + 1, compares + 1)

\* the loop of TOTP.validate from offset i on; hmacs and compares count the
\* HMAC computations and the comparisons made so far
RECURSIVE validateFrom(_, _, _, _, _, _, _)
validateFrom(config, token, currentTimeStep, window, i, hmacs, compares) ==
    IF i > window
    THEN [outcome |-> Return([isValid |-> FALSE]), hmacs |-> hmacs, compares |-> compares]
    ELSE LET timeStep == NumAdd(currentTimeStep, i)
             expectedToken == generateToken(config, timeStep)
         IN  IF Raised(expectedToken.outcome)
             THEN [outcome |-> expectedToken.outcome,
                   hmacs |-> hmacs + expectedToken.hmacs, compares |-> compares]
             ELSE IF constantTimeEquals(token, expectedToken.outcome.value)
             THEN [outcome |-> Return([isValid |-> TRUE, delta |-> i]),
                   hmacs |-> hmacs + 1, compares |-> compares + 1]
             ELSE validateFrom(config, token, currentTimeStep, window, i + 1,
                               hmacs + 1, compares + 1)

\* validate taking a negative window for its absolute value
validate_AbsoluteWindow(config, token, currentTime, window) ==
    LET tokenCheck == validateToken(token, config.digits)
        currentTimeStep == TimeStepOf(config, currentTime)
        w == IF window < 0 THEN -window ELSE window
    IN  IF Raised(tokenCheck)
        THEN [outcome |-> tokenCheck, hmacs |-> 0, compares |-> 0]
        ELSE validateFrom(config, token, currentTimeStep, w, -w, 0, 0)

\* validate with the format check moved after the loop
validate_ChecksTokenLast(config, token, currentTime, window) ==
    LET tokenCheck == validateToken(token, config.digits)
        currentTimeStep == TimeStepOf(config, currentTime)
        looped == validateFrom(config, token, currentTimeStep, window, -window, 0, 0)
    IN  IF Raised(looped.outcome) \/ ~Raised(tokenCheck) THEN looped
        ELSE [outcome |-> tokenCheck, hmacs |-> looped.hmacs, compares |-> looped.compares]

\* TOTP.validate
validate(config, token, currentTime, window) ==
    LET tokenCheck == validateToken(token, config.digits)
        currentTimeStep == TimeStepOf(config, currentTime)
    IN  IF Raised(tokenCheck)
        THEN [outcome |-> tokenCheck, hmacs |-> 0, compares |-> 0]
        ELSE validateFrom(config, token, currentTimeStep, window, -window, 0, 0)

---------------------------------------------------------------------------
(* Calls on an instance.  The instance is one whose configuration has the
   fields validateConfig is written to let through, as the tests and the
   README build it; the construction claims show what the constructor of
   lib/totp.ts does with such a configuration. *)

\* generate reading the caller's object, as if the constructor had kept the
\* reference instead of a copy
Generate_Aliased(timestamp, now) ==
    LET currentTime == OrElse(timestamp, now)
        result == generate(callerConfig[1], currentTime)
    IN  /\ call' = [op |-> "generate", timestamp |-> timestamp, time |-> currentTime,
                    outcome |-> result.outcome, hmacs |-> result.hmacs]
        /\ issued' = IF Raised(result.outcome) THEN issued
                     ELSE Append(issued, [result |-> result.outcome.value,
                                          time |-> currentTime])
        /\ UNCHANGED <<instance, hmacTable, callerConfig>>

\* generate deriving the token of a counter that moves on with every result
\* the caller was given
Generate_Counting(timestamp, now) ==
    LET currentTime == OrElse(timestamp, now)
        moved == NumAdd(currentTime, 1000 * Floor(instance[1].period) * Len(issued))
        result == generate(instance[1], IF NumLt(currentTime, 0) THEN currentTime ELSE moved)
    IN  /\ call' = [op |-> "generate", timestamp |-> timestamp, time |-> currentTime,
                    outcome |-> result.outcome, hmacs |-> result.hmacs]
        /\ issued' = IF Raised(result.outcome) THEN issued
                     ELSE Append(issued, [result |-> result.outcome.value,
                                          time |-> currentTime])
        /\ UNCHANGED <<instance, hmacTable, callerConfig>>

\* totp.generate(timestamp): the caller keeps the result it was given
Generate(timestamp, now) ==
    LET currentTime == OrElse(timestamp, now)
        result == generate(instance[1], currentTime)
    IN  /\ call' = [op |-> "generate", timestamp |-> timestamp, time |-> currentTime,
                    outcome |-> result.outcome, hmacs |-> result.hmacs]
        /\ issued' = IF Raised(result.outcome) THEN issued
                     ELSE Append(issued, [result |-> result.outcome.value,
                                          time |-> currentTime])
        /\ UNCHANGED <<instance, hmacTable, callerConfig>>

\* totp.validate(token, timestamp, window), window defaulting to 1
Validate(token, timestamp, now, window) ==
    LET currentTime == OrElse(timestamp, now)
        result == validate(instance[1], token, currentTime, OrElse(window, 1))
    IN  /\ call' = [op |-> "validate", token |-> token, timestamp |-> timestamp,
                    time |-> currentTime, window |-> window,
                    outcome |-> result.outcome, hmacs |-> result.hmacs,
                    compares |-> result.compares]
        /\ UNCHANGED <<instance, hmacTable, issued, callerConfig>>

\* totp.getCurrentTimeStep(timestamp)
GetCurrentTimeStep(timestamp, now) ==
    LET currentTime == OrElse(timestamp, now)
    IN  /\ call' = [op |-> "getCurrentTimeStep", timestamp |-> timestamp,
                    time |-> currentTime,
                    outcome |-> getCurrentTimeStep(instance[1], currentTime)]
        /\ UNCHANGED <<instance, hmacTable, issued, callerConfig>>

\* the caller assigns a field of the configuration object it passed to the
\* constructor; this.config is the copy { ...config }, another object
AssignCallerConfig(period) ==
    /\ callerConfig' = <<[callerConfig[1] EXCEPT !.period = period]>>
    /\ UNCHANGED <<instance, hmacTable, issued, call>>

---------------------------------------------------------------------------
(* The instances and the arguments of the calls *)

SecretFor(algorithm) ==
    CASE algorithm = "SHA1" -> Rep("A", 32)
      [] algorithm = "SHA256" -> Rep("A", 52)
      [] algorithm = "SHA512" -> Rep("A", 103) \o <<"=">>

InstancePeriods == {1, 2}

\* the configurations whose fields are what validateConfig is written to let
\* through
DigitsFor(algorithm) ==
    CASE algorithm = "SHA1" -> 6
      [] algorithm = "SHA256" -> 7
      [] algorithm = "SHA512" -> 8

InstanceConfigs ==
    { [secret |-> SecretFor(a), algorithm |-> a,
       digits |-> Num(DigitsFor(a)), period |-> Num(p)] :
        a \in Algorithms, p \in InstancePeriods }

TwoTo31 == [h |-> Limb \div 2, l |-> 0, f |-> 0]

\* times in milliseconds: from 0 on, and around the steps 2^31 and 2^32
Timestamps ==
    { Num(1000 * k) : k \in 0..MaxTick } \cup { Num(1999) }
    \cup { NumMul(NumAdd(TwoTo31, j), 2000) : j \in {-1, 0} }

\* times before the epoch, handed to generate
EarlierTimestamps == { Num(-1), Num(-2000) }

\* what Date.now() may return
ClockTimes == { Num(0), Num(1500) }

WindowArgs == {<<>>} \cup { <<w>> : w \in -1..MaxWindow }

\* the tokens a caller may type, apart from one it was issued
TypedTokens(digits) ==
    { <<>>, Rep("0", digits), Rep("0", digits - 1), Rep("1", digits - 1) \o <<"a">> }

Init ==
    /\ instance \in { <<c>> : c \in InstanceConfigs }
    /\ hmacTable \in [1..Slots -> DOMAIN DigestSeeds]
    /\ issued = <<>>
    /\ call = NoCall
    /\ callerConfig = instance

\* a run is at most one getCurrentTimeStep, then at most one generate, then
\* a second generate or at most one validate (after a generate that raised,
\* the caller holds what it held at the start); the caller may change its
\* configuration object before the calls
GenerateCall ==
    /\ \/ call.op \in {"none", "getCurrentTimeStep"}
       \/ (call.op = "generate" /\ ~Raised(call.outcome) /\ Len(issued) = 1)
    /\ \E timestamp \in {<<>>} \cup { <<t>> : t \in Timestamps \cup EarlierTimestamps } :
         \E now \in IF timestamp = <<>> THEN ClockTimes ELSE {Num(0)} :
            Generate(timestamp, now)

ValidateCall ==
    /\ call.op = "none" \/ (call.op = "generate" /\ ~Raised(call.outcome))
    /\ Len(issued) <= 1
    /\ \E token \in TypedTokens(Floor(instance[1].digits))
                      \cup { issued[i].result.token : i \in DOMAIN issued },
          timestamp \in {<<>>} \cup { <<t>> : t \in Timestamps },
          window \in WindowArgs :
         \E now \in IF timestamp = <<>> THEN ClockTimes ELSE {Num(0)} :
            Validate(token, timestamp, now, window)

GetCurrentTimeStepCall ==
    /\ call = NoCall
    /\ \E timestamp \in {<<>>} \cup { <<t>> : t \in Timestamps } :
         \E now \in IF timestamp = <<>> THEN ClockTimes ELSE {Num(0)} :
            GetCurrentTimeStep(timestamp, now)

AssignCallerConfigCall ==
    /\ call = NoCall
    /\ callerConfig = instance
    /\ \E p \in InstancePeriods \ {Floor(instance[1].period)} :
         AssignCallerConfig(Num(p))

Next == GenerateCall \/ ValidateCall \/ GetCurrentTimeStepCall \/ AssignCallerConfigCall

Spec == Init /\ [][Next]_vars

---------------------------------------------------------------------------
(* Calls of the helper functions, outside any instance *)

\* constantTimeEquals(a, b)
ConstantTimeEquals(a, b) ==
    /\ call' = [op |-> "constantTimeEquals", a |-> a, b |-> b,
                outcome |-> Return(constantTimeEquals(a, b)),
                iterations |-> LoopIterations(a, b)]
    /\ UNCHANGED <<instance, hmacTable, issued, callerConfig>>

\* validateToken(token, expectedLength)
ValidateToken(token, expectedLength) ==
    /\ call' = [op |-> "validateToken", token |-> token,
                expectedLength |-> expectedLength,
                outcome |-> validateToken(token, expectedLength)]
    /\ UNCHANGED <<instance, hmacTable, issued, callerConfig>>

\* validateDigits(digits)
ValidateDigits(digits) ==
    /\ call' = [op |-> "validateDigits", digits |-> digits,
                outcome |-> validateDigits(digits)]
    /\ UNCHANGED <<instance, hmacTable, issued, callerConfig>>

\* validatePeriod(period)
ValidatePeriod(period) ==
    /\ call' = [op |-> "validatePeriod", period |-> period,
                outcome |-> validatePeriod(period)]
    /\ UNCHANGED <<instance, hmacTable, issued, callerConfig>>

\* generateSecret(length), with what the random byte source does if called
GenerateSecret(length, random) ==
    LET result == generateSecret(length, random)
    IN  /\ call' = [op |-> "generateSecret", length |-> length,
                    outcome |-> result.outcome, randoms |-> result.randoms,
                    drawn |-> IF result.randoms > 0 THEN <<random>> ELSE <<>>]
        /\ UNCHANGED <<instance, hmacTable, issued, callerConfig>>

\* decodeSecretForHMAC(secret) of the secret generateSecret has just
\* returned; the bytes the random source had drawn are kept beside it
DecodeGeneratedSecret ==
    LET text == call.outcome.value
        result == decodeSecretForHMAC(text)
    IN  /\ call' = [op |-> "decodeSecretForHMAC", text |-> text, edits |-> 0,
                    outcome |-> result.outcome, decodes |-> result.decodes]
        /\ issued' = <<[text |-> text, outcome |-> result.outcome,
                        drawn |-> call.drawn[1].value]>>
        /\ UNCHANGED <<instance, hmacTable, callerConfig>>

\* decodeSecretForHMAC(text); edits counts the respellings that led from the
\* text the caller first decoded, which it keeps with its outcome, to this one
DecodeSecretForHMAC(text, edits) ==
    LET result == decodeSecretForHMAC(text)
    IN  /\ call' = [op |-> "decodeSecretForHMAC", text |-> text, edits |-> edits,
                    outcome |-> result.outcome, decodes |-> result.decodes]
        /\ issued' = IF edits = 0
                     THEN <<[text |-> text, outcome |-> result.outcome]>>
                     ELSE issued
        /\ UNCHANGED <<instance, hmacTable, callerConfig>>

\* performDynamicTruncation(hash)
PerformDynamicTruncation(hash) ==
    /\ call' = [op |-> "performDynamicTruncation", hash |-> hash,
                outcome |-> performDynamicTruncation(hash),
                reads |-> TruncationReads(hash)]
    /\ UNCHANGED <<instance, hmacTable, issued, callerConfig>>

\* createTimeBuffer(timeStep)
CreateTimeBuffer(timeStep) ==
    /\ call' = [op |-> "createTimeBuffer", timeStep |-> timeStep,
                outcome |-> createTimeBuffer(timeStep)]
    /\ UNCHANGED <<instance, hmacTable, issued, callerConfig>>

---------------------------------------------------------------------------
(* The arguments of the helper calls *)

\* the strings of up to n characters of a set
StringsOver(chars, n) == UNION { [1..k -> chars] : k \in 0..n }

CompareChars == {"0", "1", "a"}
TokenChars == {"0", "7", "a", " "}
SecretTextChars == {"A", "b", "7", "1", "=", " "}
WhitespaceChars == {" ", "\t", "\n"}

LengthArgs == { Num(n) : n \in -1..(MaxText + 1) } \cup { Frac(MaxText, 5) }
DigitCounts == { Num(n) : n \in -1..10 } \cup { Frac(n, 5) : n \in 5..8 } \cup { TwoTo31 }
Periods == { Num(n) : n \in -2..3 } \cup { Num(30), Frac(0, 5), Frac(1, 5), Frac(-1, 5), TwoTo31 }
SecretLengths == { Num(n) : n \in {-20, 0, 1, 16, 20, 21, 32, 64, 128} } \cup { Frac(20, 5) }

\* what randomBytes(n) may return: n bytes, here an arithmetic run of them
RandomRuns == { [first |-> 0, step |-> 0], [first |-> 255, step |-> 0],
                [first |-> 90, step |-> 7] }
RandomBytes(run, n) == [i \in 1..n |-> (run.first + i * run.step) % 256]
RandomOutcomes(length) ==
    { Return(RandomBytes(run, IF NumGt(length, 0) /\ NumLt(length, 200)
                              THEN Floor(length) ELSE 0)) : run \in RandomRuns }
    \cup { Raise("Error", "randomBytes") }

\* the letter c in the other case
ToggleCase(c) ==
    IF c \in LowerSet THEN UpperOf[c]
    ELSE IF c \in UpperSet THEN Lower[IndexIn(Upper, c)]
    ELSE c

\* the texts one respelling away: the case of one letter changed, or one
\* whitespace character put before, inside or after the text
Respelled(text) ==
    { [text EXCEPT ![i] = ToggleCase(text[i])] : i \in DOMAIN text }
    \cup { SubSeq(text, 1, i) \o <<w>> \o SubSeq(text, i + 1, Len(text)) :
             i \in 0..Len(text), w \in WhitespaceChars }

\* counters from 0 on, and around 2^31, 2^32 and 2^32 + 2^31
Counters ==
    { Num(k) : k \in 0..MaxTick } \cup { Num(41152263) }
    \cup { NumAdd(NumMul(TwoTo31, m), j) : m \in 1..3, j \in {-1, 0, 1} }

\* digests: the lengths of the three hash functions and shorter ones, every
\* truncation offset in the last byte, the other bytes an arithmetic run
DigestLengths == {0, 1, 3, 4, 10, 18, 19, 20, 32, 64}
LastBytes == { top * 16 + offset : top \in {0, 5, 15}, offset \in 0..15 }
DigestArg(length, last, run) ==
    [i \in 1..length |-> IF i = length THEN last ELSE RandomBytes(run, length)[i]]

PerformDynamicTruncationCall ==
    /\ call = NoCall
    /\ \E length \in DigestLengths, last \in LastBytes, run \in RandomRuns :
         PerformDynamicTruncation(DigestArg(length, last, run))

CreateTimeBufferCall ==
    /\ call = NoCall
    /\ \E timeStep \in Counters : CreateTimeBuffer(timeStep)

ConstantTimeEqualsCall ==
    /\ call = NoCall
    /\ \E a \in StringsOver(CompareChars, MaxText), b \in StringsOver(CompareChars, MaxText) :
         ConstantTimeEquals(a, b)

ValidateTokenCall ==
    /\ call = NoCall
    /\ \E token \in StringsOver(TokenChars, MaxText), expectedLength \in LengthArgs :
         ValidateToken(token, expectedLength)

ValidateDigitsCall ==
    /\ call = NoCall
    /\ \E digits \in DigitCounts : ValidateDigits(digits)

ValidatePeriodCall ==
    /\ call = NoCall
    /\ \E period \in Periods : ValidatePeriod(period)

GenerateSecretCall ==
    /\ call = NoCall
    /\ \E length \in SecretLengths : \E random \in RandomOutcomes(length) :
         GenerateSecret(length, random)

DecodeSecretCall ==
    /\ call = NoCall
    /\ \E text \in StringsOver(SecretTextChars, MaxText) : DecodeSecretForHMAC(text, 0)

\* the caller decodes a text of up to MaxText characters again in another
\* spelling, up to two respellings away from the first
RespellSecretCall ==
    /\ call.op = "decodeSecretForHMAC"
    /\ call.edits < 2
    /\ Len(issued[1].text) <= MaxText
    /\ \E text \in Respelled(call.text) : DecodeSecretForHMAC(text, call.edits + 1)

DecodeGeneratedSecretCall ==
    /\ call.op = "generateSecret"
    /\ ~Raised(call.outcome)
    /\ DecodeGeneratedSecret

NextUtils ==
    \/ ConstantTimeEqualsCall
    \/ ValidateTokenCall
    \/ ValidateDigitsCall
    \/ ValidatePeriodCall
    \/ GenerateSecretCall
    \/ DecodeSecretCall
    \/ RespellSecretCall
    \/ CreateTimeBufferCall
    \/ PerformDynamicTruncationCall
    \/ DecodeGeneratedSecretCall

SpecUtils == InitNew /\ [][NextUtils]_vars

---------------------------------------------------------------------------
(* Claims about construction, checked under SpecNew *)

NewCalled == call.op = "new"

\* the secret text is accepted by the decoder
WellFormedSecret(secret) == ~Raised(decodeSecretForHMAC(secret).outcome)

\* the secret decodes to the byte count the algorithm mandates
MandatedLength(secret, algorithm) ==
    Len(decodeSecretForHMAC(secret).outcome.value) = getSecretLength(algorithm).value

\* the checks a configuration fails, in the order secret, algorithm, digits,
\* period, each with the error kind the specification gives it
FailedChecks(config) ==
    SelectSeq(<< <<validateSecret(config.secret, config.algorithm), "INVALID_SECRET">>,
                 <<validateAlgorithm(config.algorithm), "INVALID_ALGORITHM">>,
                 <<validateDigits(config.digits), "INVALID_DIGITS">>,
                 <<validatePeriod(config.period), "INVALID_PERIOD">> >>,
              LAMBDA c : c[1] = OTPException(c[2]))

\* C7: a TOTP constructed with a base32 secret that decodes to a byte count
\* other than the one its algorithm mandates raises OTPException
\* INVALID_SECRET, and no token has been generated.
C7_SecretLengthEnforced ==
    ( /\ NewCalled
      /\ call.config.algorithm \in Algorithms
      /\ WellFormedSecret(call.config.secret)
      /\ ~MandatedLength(call.config.secret, call.config.algorithm) )
    => (call.outcome = OTPException("INVALID_SECRET") /\ issued = <<>>)

\* C8: new TOTP(config) completes without raising when the secret decodes
\* to the mandated length, the algorithm is supported, digits is an integer
\* in 6..8 and period is a positive integer.
C8_ValidConfigConstructs ==
    ( /\ NewCalled
      /\ call.config.algorithm \in Algorithms
      /\ WellFormedSecret(call.config.secret)
      /\ MandatedLength(call.config.secret, call.config.algorithm)
      /\ validateDigits(call.config.digits) = Void
      /\ validatePeriod(call.config.period) = Void )
    => (~Raised(call.outcome) /\ instance = <<call.config>>)

\* C9: a TOTP constructed with an unsupported algorithm and a well-formed
\* base32 secret raises OTPException INVALID_ALGORITHM, no other error.
C9_InvalidAlgorithmCode ==
    ( /\ NewCalled
      /\ call.config.algorithm \notin Algorithms
      /\ WellFormedSecret(call.config.secret) )
    => call.outcome = OTPException("INVALID_ALGORITHM")

\* C10: when a configuration fails more than one construction check, the
\* constructor reports the kind of the first one in the order secret,
\* algorithm, digits, period.
C10_FirstFailingCheckReported ==
    (NewCalled /\ Len(FailedChecks(call.config)) > 1)
    => call.outcome = OTPException(FailedChecks(call.config)[1][2])

---------------------------------------------------------------------------
(* Claims about generate and validate, checked under Spec *)

Config == instance[1]
GenerateCalled == call.op = "generate"
ValidateCalled == call.op = "validate"
Returned == ~Raised(call.outcome)

\* the window of the last validate call, and the step of its time
CallWindow == OrElse(call.window, 1)
CallStep == TimeStepOf(Config, call.time)

\* the last validate call was given the token the caller was issued
IssuedTokenChecked ==
    /\ ValidateCalled
    /\ issued # <<>>
    /\ call.token = issued[1].result.token

\* the step k the issued token was generated at
IssuedStep == TimeStepOf(Config, issued[1].time)

\* CallStep - IssuedStep, where the two are close enough to subtract
StepsNear == (CallStep.h - IssuedStep.h) \in -1..1
StepDelta == (CallStep.h - IssuedStep.h) * Limb + CallStep.l - IssuedStep.l
WithinWindow == StepsNear /\ StepDelta \in (-CallWindow)..CallWindow

\* the counter at offset i of the last validate call derives the call's token
OffsetMatches(i) ==
    generateToken(Config, NumAdd(CallStep, i)).outcome = Return(call.token)

WellFormedToken(token) ==
    /\ token # <<>>
    /\ \A i \in DOMAIN token : token[i] \in DigitSet
    /\ Len(token) = Floor(Config.digits)

\* bit 31 of the counter is set
Bit31Set(counter) == counter.h % Limb >= Limb \div 2

MatchingOffsets == {i \in (-CallWindow)..CallWindow : OffsetMatches(i)}
Least(S) == CHOOSE i \in S : \A j \in S : i <= j

\* C2: validate returns {isValid: true, delta: i} for the first offset i of
\* -window..window whose counter base + i derives the supplied token, and
\* {isValid: false} without a delta when no offset of the window does.
C2_FirstMatchingOffset ==
    (ValidateCalled /\ WellFormedToken(call.token))
    => IF MatchingOffsets # {}
       THEN call.outcome = Return([isValid |-> TRUE, delta |-> Least(MatchingOffsets)])
       ELSE call.outcome = Return([isValid |-> FALSE])

\* C3: validate(generate(t).token, t) with the default window returns
\* isValid = true and does not raise, for every timestamp t >= 0.
C3_SelfValidation ==
    (IssuedTokenChecked /\ call.window = <<>> /\ call.time = issued[1].time)
    => (Returned /\ call.outcome.value.isValid)

\* C4: validate with a well-formed token, a non-negative timestamp and a
\* non-negative integer window never raises.
C4_ValidateNeverRaises ==
    (ValidateCalled /\ WellFormedToken(call.token) /\ CallWindow >= 0
       /\ ~NumLt(call.time, 0))
    => Returned

\* C5: validate with a token that is empty, holds a non-digit or has a length
\* other than digits raises OTPException INVALID_TOKEN before any HMAC is
\* computed and before the comparator is called.
C5_FormatRejection ==
    (ValidateCalled /\ ~WellFormedToken(call.token))
    => /\ call.outcome = OTPException("INVALID_TOKEN")
       /\ call.hmacs = 0
       /\ call.compares = 0

\* C5 witness: a token of the right length with a non-digit was rejected
C5_Witness ==
    /\ ValidateCalled
    /\ Len(call.token) = Floor(Config.digits)
    /\ \E i \in DOMAIN call.token : call.token[i] \notin DigitSet
    /\ call.outcome = OTPException("INVALID_TOKEN")

\* the number a string of decimal digits writes
RECURSIVE DecimalValue(_)
DecimalValue(str) ==
    IF str = <<>> THEN 0
    ELSE 10 * DecimalValue(SubSeq(str, 1, Len(str) - 1))
           + (IndexIn(Digits, str[Len(str)]) - 1)

\* the 31-bit number P truncated from the digest of the step of the last call
CallTruncation ==
    performDynamicTruncation(generateHMAC(Config, createTimeBuffer(CallStep).value)).value

\* C6: a generated token has exactly digits characters, all decimal digits,
\* and writes P mod 10^digits.
C6_TokenShape ==
    (GenerateCalled /\ Returned)
    => LET token == call.outcome.value.token
           digits == Floor(Config.digits)
       IN  /\ Len(token) = digits
           /\ \A i \in DOMAIN token : token[i] \in DigitSet
           /\ DecimalValue(token) = CallTruncation % (10 ^ digits)

\* C6 witness: a generated token that starts with a padding zero
C6_Witness ==
    /\ GenerateCalled /\ Returned
    /\ call.outcome.value.token[1] = "0"
    /\ CallTruncation < 10 ^ (Floor(Config.digits) - 1)

\* the secret text in another spelling that decodes to the same bytes: its
\* first letter in lower case, or a space before it
Respellings(secret) ==
    { [secret EXCEPT ![1] = Lower[IndexIn(Upper, secret[1])]], <<" ">> \o secret }

\* C11: every token derivation keys the HMAC with the bytes the configured
\* secret text decodes to, so an instance whose secret text differs only in
\* letter case or whitespace derives the same token for the same counter.
C11_KeyIsDecodedSecret ==
    (GenerateCalled /\ Returned)
    => /\ hmacKey(Config) = decodeSecretForHMAC(Config.secret).outcome.value
       /\ \A secret \in Respellings(Config.secret) :
            /\ decodeSecretForHMAC(secret) = decodeSecretForHMAC(Config.secret)
            /\ generateToken([Config EXCEPT !.secret = secret], CallStep).outcome
                 = Return(call.outcome.value.token)

\* C12: for every timestamp t >= 0 in milliseconds, generate(t) returns the
\* token of the counter floor(t / (1000 * period)) and a remainingTime of
\* period - (floor(t / 1000) mod period), an integer in 1..period.
C12_RemainingTime ==
    (GenerateCalled /\ ~NumLt(call.time, 0))
    => LET period == Floor(Config.period)
           counter == FloorDiv(call.time, 1000 * period)
           seconds == FloorDiv(call.time, 1000)
           elapsed == ((seconds.h % period) * Limb + seconds.l) % period
       IN  /\ Returned
           /\ Return(call.outcome.value.token) = generateToken(Config, counter).outcome
           /\ call.outcome.value.remainingTime = period - elapsed
           /\ call.outcome.value.remainingTime \in 1..period

\* C13: no step of generate, validate or getCurrentTimeStep, raising or not,
\* changes the instance's secret, algorithm, digits or period, and a change
\* of the caller's configuration object changes neither the instance nor
\* what generate returns.
C13_InstanceImmutable ==
    /\ [][instance' = instance]_vars
    /\ [](GenerateCalled => call.outcome = generate(instance[1], call.time).outcome)

\* C13 witness: generate returned after the caller changed the period of its
\* configuration object
C13_Witness ==
    /\ GenerateCalled /\ Returned
    /\ callerConfig[1].period # Config.period
    /\ callerConfig[1].secret = Config.secret

---------------------------------------------------------------------------
(* Claims about the helper functions, checked under SpecUtils *)

Called(op) == call.op = op

\* C14: constantTimeEquals(a, b) is true if and only if a and b have the same
\* length and the same character code at every index; strings of different
\* lengths compare false.
C14_ComparatorIsEquality ==
    Called("constantTimeEquals")
    => /\ call.outcome.value
            <=> /\ Len(call.a) = Len(call.b)
                /\ \A i \in DOMAIN call.a : CharCode[call.a[i]] = CharCode[call.b[i]]
       /\ Len(call.a) # Len(call.b) => call.outcome = Return(FALSE)

\* C14 witness: two strings of the same length that differ in their first
\* character only compared false
C14_Witness ==
    /\ Called("constantTimeEquals")
    /\ Len(call.a) = Len(call.b) /\ Len(call.a) > 1
    /\ call.a[1] # call.b[1]
    /\ \A i \in 2..Len(call.a) : call.a[i] = call.b[i]
    /\ call.outcome = Return(FALSE)

\* C15: validateToken(token, n) returns normally if and only if token is
\* non-empty, holds decimal digits only and has exactly n characters, and
\* raises OTPException INVALID_TOKEN in every other case.
C15_TokenFormat ==
    Called("validateToken")
    => IF /\ call.token # <<>>
          /\ \A i \in DOMAIN call.token : call.token[i] \in DigitSet
          /\ call.expectedLength.f = 0
          /\ Len(call.token) = Floor(call.expectedLength)
       THEN call.outcome = Void
       ELSE call.outcome = OTPException("INVALID_TOKEN")

\* C15 witness: an all-digit token of another length than n was rejected
C15_Witness ==
    /\ Called("validateToken")
    /\ call.token # <<>>
    /\ \A i \in DOMAIN call.token : call.token[i] \in DigitSet
    /\ call.expectedLength = Num(Len(call.token) + 1)
    /\ call.outcome = OTPException("INVALID_TOKEN")

\* C16: validateDigits(d) returns normally if and only if d is an integer
\* with 6 <= d <= 8, and raises OTPException INVALID_DIGITS otherwise.
C16_DigitsRange ==
    Called("validateDigits")
    => IF call.digits.f = 0 /\ call.digits.h = 0 /\ call.digits.l \in 6..8
       THEN call.outcome = Void
       ELSE call.outcome = OTPException("INVALID_DIGITS")

\* C16 witness: a fractional digit count between 6 and 8 was rejected
C16_Witness ==
    /\ Called("validateDigits")
    /\ call.digits = Frac(7, 5)
    /\ call.outcome = OTPException("INVALID_DIGITS")

\* C17: validatePeriod(p) returns normally if and only if p is an integer
\* with p >= 1, and raises OTPException INVALID_PERIOD otherwise, so a period
\* that was let through divides a time into steps.
C17_PeriodPositive ==
    Called("validatePeriod")
    => IF call.period.f = 0 /\ (call.period.h > 0 \/ (call.period.h = 0 /\ call.period.l >= 1))
       THEN call.outcome = Void
       ELSE call.outcome = OTPException("INVALID_PERIOD")

\* C17 witness: the period 0 was rejected
C17_Witness ==
    /\ Called("validatePeriod")
    /\ call.period = Num(0)
    /\ call.outcome = OTPException("INVALID_PERIOD")

C19_CaseAndWhitespaceInsensitive ==
    (Called("decodeSecretForHMAC") /\ ~Raised(issued[1].outcome))
    => call.outcome = issued[1].outcome

\* C19 witness: a text with a letter in the other case and a whitespace
\* character more than the first one decoded to the same byte
C19_Witness ==
    /\ Called("decodeSecretForHMAC")
    /\ call.edits = 2
    /\ Len(call.text) = Len(issued[1].text) + 1
    /\ \E i \in DOMAIN issued[1].text :
         issued[1].text[i] \in UpperSet /\ ToggleCase(issued[1].text[i]) \in Range(call.text)
    /\ ~Raised(call.outcome)
    /\ Len(call.outcome.value) > 0
    /\ call.outcome = issued[1].outcome

\* the text is empty or all whitespace, or cleaned it holds a character
\* outside A-Z, 2-7 and '=', or a '=' before another character
MalformedSecretText(text) ==
    LET clean == Clean(text)
    IN  \/ clean = <<>>
        \/ \E i \in DOMAIN clean : clean[i] \notin (Base32Set \cup {"="})
        \/ \E i \in DOMAIN clean, j \in DOMAIN clean :
             i < j /\ clean[i] = "=" /\ clean[j] # "="

\* C20: decodeSecretForHMAC raises OTPException INVALID_SECRET, without
\* calling the base32 decoder, for a text that is empty, all whitespace, or
\* holds after cleaning a character outside A-Z and 2-7 other than trailing
\* '=' padding.
C20_MalformedSecretRejected ==
    (Called("decodeSecretForHMAC") /\ MalformedSecretText(call.text))
    => /\ call.outcome = OTPException("INVALID_SECRET")
       /\ call.decodes = 0

\* C20 witness: a text with '=' between two base32 characters was rejected
C20_Witness ==
    /\ Called("decodeSecretForHMAC")
    /\ call.text = <<"A", "=", "7">>
    /\ call.outcome = OTPException("INVALID_SECRET")
    /\ call.decodes = 0

\* C21: for every non-negative integer counter c, also one with bit 31 set,
\* createTimeBuffer returns the 8 bytes of c, most significant first: bytes
\* 0..3 write floor(c / 2^32) and bytes 4..7 write c mod 2^32.
C21_CounterEncoding ==
    Called("createTimeBuffer")
    => LET c == call.timeStep
           high == c.h \div Limb
           middle == c.h % Limb
       IN  call.outcome = Return(<< 0, 0, high \div 256, high % 256,
                                    middle \div 256, middle % 256,
                                    c.l \div 256, c.l % 256 >>)

\* the truncation offset of a digest: the low 4 bits of its last byte
OffsetOf(hash) == hash[Len(hash)] % 16

\* the digest is empty or shorter than offset + 4 bytes
TooShort(hash) == Len(hash) = 0 \/ Len(hash) < OffsetOf(hash) + 4

\* C22: for a digest of at least offset + 4 bytes, offset the low 4 bits of
\* its last byte, performDynamicTruncation returns the big-endian value of
\* the bytes offset..offset+3 with the top bit of the first one cleared, a
\* value P with 0 <= P < 2^31.
C22_DynamicTruncation ==
    (Called("performDynamicTruncation") /\ ~TooShort(call.hash))
    => LET first == call.hash[OffsetOf(call.hash) + 1]
           cleared == IF first >= 128 THEN first - 128 ELSE first
           P == ((cleared * 256 + call.hash[OffsetOf(call.hash) + 2]) * 256
                   + call.hash[OffsetOf(call.hash) + 3]) * 256
                   + call.hash[OffsetOf(call.hash) + 4]
       IN  /\ call.outcome = Return(P)
           /\ call.outcome.value >= 0
           /\ call.outcome.value \div 2 < 2 ^ 30

\* C22 witness: four bytes 255 at offset 15 of a 20-byte digest gave 2^31 - 1
C22_Witness ==
    /\ Called("performDynamicTruncation")
    /\ Len(call.hash) = 20 /\ OffsetOf(call.hash) = 15
    /\ call.hash[16] = 255
    /\ call.outcome = Return(2147483647)

\* C23: for a digest that is empty or shorter than offset + 4 bytes,
\* performDynamicTruncation raises an error that is no OTPException, returns
\* no value, and reads no index at or past the length of the digest.
C23_ShortDigestRaises ==
    (Called("performDynamicTruncation") /\ TooShort(call.hash))
    => /\ Raised(call.outcome)
       /\ call.outcome.class = "Error"
       /\ call.outcome.class # OTPException("INVALID_TOKEN").class
       /\ \A i \in call.reads : i < Len(call.hash)

\* C23 witness: an 18-byte digest with offset 15 raised
C23_Witness ==
    /\ Called("performDynamicTruncation")
    /\ Len(call.hash) = 18 /\ OffsetOf(call.hash) = 15
    /\ call.outcome = Raise("Error", "Invalid hash offset for truncation")

\* C28: for a digest of 20, 32 or 64 bytes, whatever its bytes, the offset is
\* at most 15, offset + 4 <= 19 <= length, and performDynamicTruncation
\* returns without raising and reads inside the digest only.
C28_SupportedDigestsTruncate ==
    (Called("performDynamicTruncation") /\ Len(call.hash) \in {20, 32, 64})
    => /\ ~Raised(call.outcome)
       /\ OffsetOf(call.hash) + 4 <= 19
       /\ call.reads \subseteq 0..(Len(call.hash) - 1)

\* C28 witness: a 20-byte digest with the largest offset, 15, was truncated
C28_Witness ==
    /\ Called("performDynamicTruncation")
    /\ Len(call.hash) = 20 /\ call.hash[20] = 255
    /\ ~Raised(call.outcome)
    /\ call.reads = {15, 16, 17, 18, 19}

\* C24: for two strings of the same length n, constantTimeEquals makes
\* exactly n loop iterations, wherever the first differing character is.
C24_NoEarlyExit ==
    (Called("constantTimeEquals") /\ Len(call.a) = Len(call.b))
    => call.iterations = Len(call.a)

\* C24 witness: strings that differ at index 0 were compared to the end
C24_Witness ==
    /\ Called("constantTimeEquals")
    /\ Len(call.a) = Len(call.b) /\ Len(call.a) > 1
    /\ call.a[1] # call.b[1]
    /\ call.iterations = Len(call.a)
    /\ call.outcome = Return(FALSE)

---------------------------------------------------------------------------
(* More claims about generate and validate, checked under Spec *)

\* C25: a validate call with an integer window w >= 0 computes at most
\* 2w + 1 HMACs, exactly 2w + 1 when no offset of the window matches, and
\* none after the first offset that matches.
C25_HmacCount ==
    (ValidateCalled /\ WellFormedToken(call.token) /\ CallWindow >= 0)
    => /\ call.hmacs <= 2 * CallWindow + 1
       /\ MatchingOffsets = {} => call.hmacs = 2 * CallWindow + 1
       /\ MatchingOffsets # {} => call.hmacs = Least(MatchingOffsets) + CallWindow + 1

\* C29: validate with a negative window and a well-formed token computes no
\* HMAC, makes no comparison and returns {isValid: false}, also for the
\* token of the base counter.
C29_NegativeWindow ==
    (ValidateCalled /\ WellFormedToken(call.token) /\ CallWindow < 0)
    => /\ call.outcome = Return([isValid |-> FALSE])
       /\ call.hmacs = 0
       /\ call.compares = 0

\* C29 witness: the token generated for a time was checked at that time with
\* window -1 and found not valid
C29_Witness ==
    /\ IssuedTokenChecked
    /\ call.time = issued[1].time
    /\ call.window = <<-1>>
    /\ OffsetMatches(0)
    /\ call.outcome = Return([isValid |-> FALSE])

\* C26: an HMAC is computed only for a counter that is a non-negative
\* integer: generateToken raises OTPException INVALID_COUNTER with no HMAC
\* computed for a negative or fractional counter, and generate with a
\* negative timestamp raises INVALID_COUNTER.
C26_CounterInvariant ==
    /\ generateToken(Config, Num(-1)) = Counted(OTPException("INVALID_COUNTER"), 0)
    /\ generateToken(Config, Frac(1, 5)) = Counted(OTPException("INVALID_COUNTER"), 0)
    /\ GenerateCalled
         => /\ NumLt(call.time, 0)
                 => call.outcome = OTPException("INVALID_COUNTER") /\ call.hmacs = 0
            /\ call.hmacs > 0 => Number_isInteger(CallStep) /\ ~NumLt(CallStep, 0)
    /\ (ValidateCalled /\ call.hmacs > 0)
         => ~NumLt(NumAdd(CallStep, -CallWindow), 0)

\* C26 witness: generate one millisecond before the epoch raised
\* INVALID_COUNTER
C26_Witness ==
    /\ GenerateCalled
    /\ call.time = Num(-1)
    /\ CallStep = Num(-1)
    /\ call.outcome = OTPException("INVALID_COUNTER")
    /\ call.hmacs = 0

---------------------------------------------------------------------------
(* More claims about the helper functions, checked under SpecUtils *)

\* the last call decoded a secret that generateSecret had returned
GeneratedSecretDecoded ==
    /\ Called("decodeSecretForHMAC")
    /\ "drawn" \in DOMAIN issued[1]
    /\ call.text = issued[1].text

\* C30: for N in 20, 32, 64, decodeSecretForHMAC of the text generateSecret(N)
\* returned gives the N bytes the random source had drawn.
C30_RoundTrip ==
    GeneratedSecretDecoded
    => /\ call.outcome = Return(issued[1].drawn)
       /\ Len(call.outcome.value) \in {20, 32, 64}

\* C30 witness: a secret of 32 bytes, whose text ends in '=' padding, decoded
\* to the 32 bytes drawn, not all of them equal
C30_Witness ==
    /\ GeneratedSecretDecoded
    /\ call.text[Len(call.text)] = "="
    /\ Len(issued[1].drawn) = 32
    /\ issued[1].drawn[1] # issued[1].drawn[2]
    /\ call.outcome = Return(issued[1].drawn)

====
